---------------------------- MODULE Spec2Model ----------------------------
(***************************************************************************)
(* A model of Ranked/Election.py: the Election class, which simulates a    *)
(* single-winner ranked-choice (instant-runoff) election and records the   *)
(* round-by-round vote flow as a Sankey diagram.                           *)
(*                                                                         *)
(* An Election instance is a record.  Every method of the class is an      *)
(* operator from the record before the call (and the call's arguments and  *)
(* random draws) to the record after it.  single_winner_rcv is cut at its  *)
(* loop: Start (lines 111-121), one Eliminate and one Redistribute per     *)
(* iteration (lines 139-145 and 146-232), Finish (line 234).               *)
(*                                                                         *)
(* A ballot is modelled by its "ranking"; the code never reads "weight".   *)
(* The ballot objects held in a candidate's list are modelled by their     *)
(* position in self.ballots (the identity of the appended object).         *)
(*                                                                         *)
(* Beside the fields of the class the record holds the position in         *)
(* single_winner_rcv (pc), its locals sankey_layer and last_place, the     *)
(* exception that ended a call (raised), and three counters of what has    *)
(* happened: rounds (iterations of the loop begun), assigns (calls of      *)
(* assign_ballots) and original (the candidates when ballots were last     *)
(* assigned, whose number line 90 stores).                                 *)
(***************************************************************************)
EXTENDS Integers, Sequences, FiniteSets, TLC

VARIABLES el, el2

vars == <<el, el2>>

\* ------------------------------------------------------------------ bounds

\* The longest ballot list add_ballot builds.
MaxBallots == 2

\* The longest ballot list add_ballot builds from the rankings of
\* RoundRankings alone: two ballots for each of three candidates.
MaxRoundBallots == 6

\* The most calls of assign_ballots the user makes before the run (the run
\* makes one more).
MaxAssigns == 1

\* ------------------------------------------------------------- the inputs

Cands == {"A", "B", "C"}

None == "None"

\* A node of the Sankey diagram without a "value" key (line 191).
NoValue == -1

Range(s) == {s[i] : i \in DOMAIN s}

Reverse(s) == [i \in 1..Len(s) |-> s[Len(s) + 1 - i]]

SeqsUpTo(S, n) == UNION {[1..k -> S] : k \in 0..n}

\* The orders in which the elements of the set S can be listed.
Orders(S) == {s \in [1..Cardinality(S) -> S] : Range(s) = S}

\* A ranking: an ordered sequence of candidate identifiers, unique within it.
Rankings == UNION {Orders(S) : S \in SUBSET Cands}

\* The lists add_candidates is called with: names may repeat.
NameLists == SeqsUpTo(Cands, Cardinality(Cands))

\* ----------------------------------------------------------- the instance

\* __init__ with its default arguments.
ElectionInit ==
    [ ballots |-> <<>>,
      keys |-> <<>>,
      candidates |-> [k \in {} |-> <<>>],
      winner |-> None,
      eliminated |-> {},
      number_of_candidates |-> 0,
      nodes |-> <<>>,
      links |-> <<>>,
      pc |-> "idle",
      raised |-> None,
      sankey_layer |-> 0,
      last_place |-> None,
      rounds |-> 0,
      assigns |-> 0,
      original |-> {} ]

\* len(self.candidates[c])
Tally(self, c) == Len(self.candidates[c])

\* DelCandidate that deletes nothing.
DelCandidate_Keep(self, c) == self

\* del self.candidates[c]
DelCandidate(self, c) ==
    [self EXCEPT !.keys = SelectSeq(@, LAMBDA k : k # c),
                 !.candidates = [k \in Range(self.keys) \ {c} |-> @[k]]]

\* self.candidates[c].append(ballot)
AppendBallot(self, c, b) ==
    [self EXCEPT !.candidates[c] = Append(@, b)]

\* An exception leaves the call that raised it.  The instance is not used
\* again: pc = "error" is final.
Abort(self, exc) == [self EXCEPT !.raised = exc, !.pc = "error"]

\* ------------------------------------------------------------- add_ballot

add_ballot(self, ballot) ==
    [self EXCEPT !.ballots = Append(@, ballot)]

\* ----------------------------------------------------------------- riffle

\* ceil((3/2) * log2(n)) for n >= 1: the least k with 4^k >= n^3.
RECURSIVE LeastPow4(_, _)
LeastPow4(k, n) == IF 4^k >= n * n * n THEN k ELSE LeastPow4(k + 1, n)

\* math.ceil(shuffles) of line 252, for n >= 1 and U = random.randrange(0, n).
ShuffleCount(n, U) == LeastPow4(0, n) + U

\* riffle(item): U is the draw of random.randrange, sigma the permutation of
\* positions that the ShuffleCount passes of random.shuffle compose to (each
\* pass is a permutation of positions fixed by its draws).  math.log2(0)
\* raises ValueError before anything is shuffled.
riffle(item, U, sigma) ==
    IF Len(item) = 0 THEN [raised |-> "ValueError", item |-> item]
    ELSE IF ShuffleCount(Len(item), U) = 0 THEN [raised |-> None, item |-> item]
    ELSE [raised |-> None, item |-> [i \in 1..Len(item) |-> item[sigma[i]]]]

\* --------------------------------------------------------- add_candidates

\* for candidate in candidates: self.candidates[candidate] = []
RECURSIVE Register(_, _, _)
Register(self, lst, i) ==
    IF i > Len(lst) THEN self
    ELSE LET c == lst[i]
             known == c \in Range(self.keys)
             next == [self EXCEPT
                        !.keys = IF known THEN @ ELSE Append(@, c),
                        !.candidates = [k \in Range(self.keys) \cup {c} |->
                                          IF k = c THEN <<>> ELSE @[k]]]
         IN Register(next, lst, i + 1)

\* Lines 82-83, after riffle returned or raised.
AddShuffled(self, shuffled) ==
    IF shuffled.raised # None THEN Abort(self, shuffled.raised)
    ELSE Register(self, shuffled.item, 1)

\* add_candidates(candidates): h is the order in which list(set(candidates))
\* lists the distinct names (the set's iteration order, which no random draw
\* decides), U and sigma are riffle's draws.
add_candidates(self, names, h, U, sigma) ==
    LET shuffled == riffle(h, U, sigma)
    IN AddShuffled(self, shuffled)

\* ---------------------------------------------------------- assign_ballots

\* AssignFrom that stops before the last ballot.
RECURSIVE AssignFrom_DropLast(_, _)
AssignFrom_DropLast(self, i) ==
    IF i >= Len(self.ballots) THEN self
    ELSE LET ranking == self.ballots[i]
         IN IF Len(ranking) = 0 THEN Abort(self, "IndexError")
            ELSE IF ranking[1] \notin Range(self.keys) THEN Abort(self, "KeyError")
            ELSE AssignFrom_DropLast(AppendBallot(self, ranking[1], i), i + 1)

\* The loop of lines 92-94 from the i-th ballot.  ranking[0] raises
\* IndexError for an empty ranking, self.candidates[first_choice] KeyError
\* for a name that is no candidate.
RECURSIVE AssignFrom(_, _)
AssignFrom(self, i) ==
    IF i > Len(self.ballots) THEN self
    ELSE LET ranking == self.ballots[i]
         IN IF Len(ranking) = 0 THEN Abort(self, "IndexError")
            ELSE IF ranking[1] \notin Range(self.keys) THEN Abort(self, "KeyError")
            ELSE AssignFrom(AppendBallot(self, ranking[1], i), i + 1)

assign_ballots(self) ==
    AssignFrom([self EXCEPT !.number_of_candidates = Len(self.keys),
                            !.original = Range(self.keys),
                            !.assigns = @ + 1], 1)

\* --------------------------------------------------------- sort_candidates

\* sorted(..., key=lambda g: -len(self.candidates[g])): a stable sort, so
\* candidates with equal tallies keep the order of self.candidates.
RECURSIVE SortFrom(_, _, _)
SortFrom(self, sorted, i) ==
    IF i > Len(self.keys) THEN sorted
    ELSE LET c == self.keys[i]
             pos == Cardinality({j \in 1..Len(sorted) :
                                   Tally(self, sorted[j]) >= Tally(self, c)})
         IN SortFrom(self,
                     SubSeq(sorted, 1, pos) \o <<c>> \o SubSeq(sorted, pos + 1, Len(sorted)),
                     i + 1)

\* sort_candidates that leaves the order of self.candidates.
sort_candidates_Unsorted(self) == self.keys

sort_candidates(self) == SortFrom(self, <<>>, 1)

\* ------------------------------------------------------ resolve_tie_random

\* The loop of lines 64-66 over reverse_ranked_candidates.
RECURSIVE TiedFrom(_, _, _, _, _)
TiedFrom(self, rev, tally, tied, i) ==
    IF i > Len(rev) THEN tied
    ELSE IF Tally(self, rev[i]) = tally /\ rev[i] \notin Range(tied)
         THEN TiedFrom(self, rev, tally, Append(tied, rev[i]), i + 1)
         ELSE TiedFrom(self, rev, tally, tied, i + 1)

\* tied_candidates that compares the last two places only.
tied_candidates_Adjacent(self) ==
    LET rev == Reverse(sort_candidates(self))
    IN IF Len(rev) > 1 /\ Tally(self, rev[2]) = Tally(self, rev[1])
       THEN <<rev[1], rev[2]>>
       ELSE <<rev[1]>>

\* tied_candidates of resolve_tie_random, for a non-empty self.candidates.
tied_candidates(self) ==
    LET rev == Reverse(sort_candidates(self))
    IN TiedFrom(self, rev, Tally(self, rev[1]), <<rev[1]>>, 1)

\* The draws of random.choice(tied_candidates): an index below its length.
TieDraws(self) == 0..(Len(tied_candidates(self)) - 1)

\* random.choice(seq): the draw r picks the index r mod len(seq).
Choice(seq, r) == seq[(r % Len(seq)) + 1]

\* resolve_tie_random that takes the first candidate of self.candidates.
resolve_tie_random_First(self, r) == self.keys[1]

resolve_tie_random(self, r) == Choice(tied_candidates(self), r)

\* ------------------------------------------------------- single_winner_rcv

\* Lines 118-121: a node per candidate that holds a ballot, in the order of
\* self.candidates.
RECURSIVE InitialNodes(_, _)
InitialNodes(self, i) ==
    IF i > Len(self.keys) THEN <<>>
    ELSE LET c == self.keys[i]
             rest == InitialNodes(self, i + 1)
         IN IF Tally(self, c) > 0
            THEN <<[name |-> c, layer |-> 1, value |-> Tally(self, c)]>> \o rest
            ELSE rest

\* Lines 111-121: assign_ballots, sankey_layer = 1, the first layer of nodes.
Start(self) ==
    LET a == assign_ballots(self)
    IN IF a.pc = "error" THEN a
       ELSE [a EXCEPT !.pc = "loop",
                      !.sankey_layer = 1,
                      !.rounds = 0,
                      !.last_place = None,
                      !.nodes = @ \o InitialNodes(a, 1)]

\* LoopTest with the bound off by one.
LoopTest_OffByOne(self) == Cardinality(self.eliminated) < self.number_of_candidates

\* LoopTest that stops one round early.
LoopTest_StopsEarly(self) == Cardinality(self.eliminated) < self.number_of_candidates - 2

\* The test of the while loop, line 137.
LoopTest(self) == Cardinality(self.eliminated) < self.number_of_candidates - 1

\* Eliminate that assigns the eliminated set instead of adding to it.
Eliminate_Overwrite(self, r) ==
    IF Len(self.keys) = 0 THEN Abort(self, "IndexError")
    ELSE LET last == resolve_tie_random(self, r)
         IN [self EXCEPT !.last_place = last,
                         !.eliminated = {last},
                         !.rounds = @ + 1,
                         !.pc = "elim"]

\* Eliminate without line 145.
Eliminate_NoMark(self, r) ==
    IF Len(self.keys) = 0 THEN Abort(self, "IndexError")
    ELSE LET last == resolve_tie_random(self, r)
         IN [self EXCEPT !.last_place = last,
                         !.rounds = @ + 1,
                         !.pc = "elim"]

\* Lines 139-145: pick the last-place candidate and eliminate it.
Eliminate(self, r) ==
    IF Len(self.keys) = 0 THEN Abort(self, "IndexError")
    ELSE LET last == resolve_tie_random(self, r)
         IN [self EXCEPT !.last_place = last,
                         !.eliminated = @ \cup {last},
                         !.rounds = @ + 1,
                         !.pc = "elim"]

\* The first candidate of the ranking that is not eliminated (lines 171-172),
\* None when there is none.
RECURSIVE FirstAvailable(_, _, _)
FirstAvailable(ranking, eliminated, i) ==
    IF i > Len(ranking) THEN None
    ELSE IF ranking[i] \notin eliminated THEN ranking[i]
    ELSE FirstAvailable(ranking, eliminated, i + 1)

\* The candidates of the ranking that are not eliminated, in its order.
Available(ranking, eliminated) == SelectSeq(ranking, LAMBDA c : c \notin eliminated)

\* One ballot handed to each candidate of avail from the j-th on.
RECURSIVE GiveAll(_, _, _, _)
GiveAll(acc, avail, b, j) ==
    IF j > Len(avail) THEN acc
    ELSE GiveAll([self |-> AppendBallot(acc.self, avail[j], b),
                  order |-> IF avail[j] \in Range(acc.order) THEN acc.order
                            ELSE Append(acc.order, avail[j]),
                  count |-> [acc.count EXCEPT ![avail[j]] = @ + 1]],
                 avail, b, j + 1)

\* TransferFrom without the break of line 179: the ballot goes to every
\* candidate of its ranking that is not eliminated.
RECURSIVE TransferFrom_NoBreak(_, _, _)
TransferFrom_NoBreak(acc, held, i) ==
    IF i > Len(held) THEN acc
    ELSE LET avail == Available(acc.self.ballots[held[i]], acc.self.eliminated)
         IN IF \E j \in 1..Len(avail) : avail[j] \notin Range(acc.self.keys)
            THEN [acc EXCEPT !.self = Abort(@, "KeyError")]
            ELSE TransferFrom_NoBreak(GiveAll(acc, avail, held[i], 1), held, i + 1)

\* Lines 170-179 from the i-th ballot of held, the list of the last-place
\* candidate.  acc holds the instance and the transfers dictionary (its keys
\* in insertion order and its counts).  self.candidates[candidate] raises
\* KeyError for a name that is no candidate.
RECURSIVE TransferFrom(_, _, _)
TransferFrom(acc, held, i) ==
    IF i > Len(held) THEN acc
    ELSE LET c == FirstAvailable(acc.self.ballots[held[i]], acc.self.eliminated, 1)
         IN IF c = None THEN TransferFrom(acc, held, i + 1)
            ELSE IF c \notin Range(acc.self.keys)
                 THEN [acc EXCEPT !.self = Abort(@, "KeyError")]
            ELSE TransferFrom(
                   [self |-> AppendBallot(acc.self, c, held[i]),
                    order |-> IF c \in Range(acc.order) THEN acc.order
                              ELSE Append(acc.order, c),
                    count |-> [acc.count EXCEPT ![c] = @ + 1]],
                   held, i + 1)

Transfers(self) ==
    TransferFrom([self |-> self, order |-> <<>>, count |-> [c \in Cands |-> 0]],
                 self.candidates[self.last_place], 1)

\* list.index raises ValueError when the node is not in the list.
NotFound == -1

\* self.sankey_obj["nodes"].index(node): the first position, from 0.
IndexOf(nodes, node) ==
    IF \E i \in 1..Len(nodes) : nodes[i] = node
    THEN (CHOOSE i \in 1..Len(nodes) :
            nodes[i] = node /\ \A j \in 1..(i - 1) : nodes[j] # node) - 1
    ELSE NotFound

\* NodeFrom without the test of lines 208 and 222: it carries the value at
\* every layer.
NodeFrom_AlwaysValue(c, layer, starting_values) ==
    [name |-> c, layer |-> layer - 1, value |-> starting_values[c]]

\* fake_node_from of lines 205-209 and 219-223.
NodeFrom(c, layer, starting_values) ==
    [name |-> c, layer |-> layer - 1,
     value |-> IF layer < 3 THEN starting_values[c] ELSE NoValue]

\* fake_node_to of lines 206 and 220.
NodeTo(c, layer) == [name |-> c, layer |-> layer, value |-> NoValue]

\* Lines 190-193: a node per remaining candidate at the new layer.
NewNodes(self, layer) ==
    LET live == SelectSeq(self.keys, LAMBDA c : c \notin self.eliminated)
    IN [i \in 1..Len(live) |-> NodeTo(live[i], layer)]

\* Lines 203-215: one self-link per remaining candidate.
SelfLinks(self, layer, starting_values) ==
    LET live == SelectSeq(self.keys, LAMBDA c : c # self.last_place)
    IN [i \in 1..Len(live) |->
          [source |-> IndexOf(self.nodes, NodeFrom(live[i], layer, starting_values)),
           target |-> IndexOf(self.nodes, NodeTo(live[i], layer)),
           value |-> starting_values[live[i]]]]

\* RealLinks that values a link at the receiver's tally before the round.
RealLinks_StartingValue(self, layer, starting_values, order, count) ==
    [i \in 1..Len(order) |->
       [source |-> IndexOf(self.nodes, NodeFrom(self.last_place, layer, starting_values)),
        target |-> IndexOf(self.nodes, NodeTo(order[i], layer)),
        value |-> starting_values[order[i]]]]

\* Lines 218-229: one link per candidate that received a transfer.
RealLinks(self, layer, starting_values, order, count) ==
    [i \in 1..Len(order) |->
       [source |-> IndexOf(self.nodes, NodeFrom(self.last_place, layer, starting_values)),
        target |-> IndexOf(self.nodes, NodeTo(order[i], layer)),
        value |-> count[order[i]]]]

\* Redistribute whose zero-ballot branch records the new layer's nodes.
Redistribute_ZeroRecords(self) ==
    LET last == self.last_place
    IN IF Tally(self, last) = 0
       THEN LET d == DelCandidate(self, last)
            IN [d EXCEPT !.pc = "loop",
                         !.sankey_layer = @ + 1,
                         !.nodes = @ \o NewNodes(d, self.sankey_layer + 1)]
       ELSE
         LET starting_values == [c \in Range(self.keys) |-> Tally(self, c)]
             t == Transfers(self)
         IN IF t.self.pc = "error" THEN t.self
            ELSE
              LET layer == self.sankey_layer + 1
                  d == DelCandidate(t.self, last)
                  n == [d EXCEPT !.sankey_layer = layer,
                                 !.nodes = @ \o NewNodes(d, layer)]
                  links == SelfLinks(n, layer, starting_values)
                           \o RealLinks(n, layer, starting_values, t.order, t.count)
              IN IF \E i \in 1..Len(links) :
                       links[i].source = NotFound \/ links[i].target = NotFound
                 THEN Abort(n, "ValueError")
                 ELSE [n EXCEPT !.links = @ \o links, !.pc = "loop"]

\* Lines 146-232: the rest of the iteration, for the candidate Eliminate chose.
Redistribute(self) ==
    LET last == self.last_place
    IN IF Tally(self, last) = 0
       THEN [DelCandidate(self, last) EXCEPT !.pc = "loop"]
       ELSE
         LET starting_values == [c \in Range(self.keys) |-> Tally(self, c)]
             t == Transfers(self)
         IN IF t.self.pc = "error" THEN t.self
            ELSE
              LET layer == self.sankey_layer + 1
                  d == DelCandidate(t.self, last)
                  n == [d EXCEPT !.sankey_layer = layer,
                                 !.nodes = @ \o NewNodes(d, layer)]
                  links == SelfLinks(n, layer, starting_values)
                           \o RealLinks(n, layer, starting_values, t.order, t.count)
              IN IF \E i \in 1..Len(links) :
                       links[i].source = NotFound \/ links[i].target = NotFound
                 THEN Abort(n, "ValueError")
                 ELSE [n EXCEPT !.links = @ \o links, !.pc = "loop"]

\* Finish without the assignment of line 234.
Finish_NoWinner(self) ==
    IF Len(self.keys) = 0 THEN Abort(self, "IndexError")
    ELSE [self EXCEPT !.pc = "done"]

\* Line 234: list(self.candidates.keys())[0] raises IndexError when no
\* candidate is left.
Finish(self) ==
    IF Len(self.keys) = 0 THEN Abort(self, "IndexError")
    ELSE [self EXCEPT !.winner = self.keys[1], !.pc = "done"]

\* ---------------------------------------------------------- specification

Init == el = ElectionInit /\ el2 = ElectionInit

\* The position permutations of a list of n items.
Perms(n) == Orders(1..n)

\* riffle's draws for a list of n items.
Draws(n) ==
    {[U |-> U, sigma |-> sigma] :
       U \in 0..(IF n = 0 THEN 0 ELSE n - 1), sigma \in Perms(n)}

\* What riffle can make of list(set(names)), for every list of names.
Shuffled ==
    [names \in NameLists |->
       {riffle(h, d.U, d.sigma) :
          h \in Orders(Range(names)), d \in Draws(Cardinality(Range(names)))}]

\* The same over all lists of names (many lists give the same results).
AllShuffled == UNION {Shuffled[names] : names \in NameLists}

\* add_candidates(names), for every list of names, every order of its set
\* and every draw.  Candidates and ballots are loaded before ballots are
\* assigned.
AddCandidates ==
    /\ el.pc = "idle"
    /\ el.assigns = 0
    /\ \E shuffled \in AllShuffled : el' = AddShuffled(el, shuffled)
    /\ UNCHANGED el2

AddBallot ==
    /\ el.pc = "idle"
    /\ el.assigns = 0
    /\ Len(el.ballots) < MaxBallots
    /\ \E ballot \in Rankings : el' = add_ballot(el, ballot)
    /\ UNCHANGED el2

\* The ballot objects the candidates' lists hold.
Held(self) ==
    LET RECURSIVE Sum(_)
        Sum(i) == IF i > Len(self.keys) THEN 0
                  ELSE Tally(self, self.keys[i]) + Sum(i + 1)
    IN Sum(1)

\* assign_ballots() called by the user, after the candidates and the ballots
\* are loaded and before the run.
AssignBallots ==
    /\ el.pc = "idle"
    /\ el.assigns < MaxAssigns
    /\ el' = assign_ballots(el)
    /\ UNCHANGED el2

RunStart ==
    /\ el.pc = "idle"
    /\ el' = Start(el)
    /\ UNCHANGED el2

RunEliminate ==
    /\ el.pc = "loop"
    /\ LoopTest(el)
    /\ \E r \in TieDraws(el) : el' = Eliminate(el, r)
    /\ UNCHANGED el2

RunRedistribute ==
    /\ el.pc = "elim"
    /\ el' = Redistribute(el)
    /\ UNCHANGED el2

RunFinish ==
    /\ el.pc = "loop"
    /\ ~LoopTest(el)
    /\ el' = Finish(el)
    /\ UNCHANGED el2

Next ==
    \/ AddCandidates
    \/ AddBallot
    \/ AssignBallots
    \/ RunStart
    \/ RunEliminate
    \/ RunRedistribute
    \/ RunFinish

Spec == Init /\ [][Next]_vars

\* ------------------------------------------------- elections of more rounds

\* The rankings of the longer ballot lists: ballots for A that fall to B,
\* ballots for B that fall to A or to C first, ballots for C alone.
RoundRankings ==
    {<<"A", "B">>, <<"B", "A", "C">>, <<"B", "C", "A">>, <<"C">>}

\* add_ballot(ballot) up to MaxRoundBallots ballots, every ballot with one of
\* the rankings of RoundRankings, in any order.
AddRoundBallot ==
    /\ el.pc = "idle"
    /\ el.assigns = 0
    /\ Len(el.ballots) < MaxRoundBallots
    /\ Range(el.ballots) \subseteq RoundRankings
    /\ \E ballot \in RoundRankings : el' = add_ballot(el, ballot)
    /\ UNCHANGED el2

\* Every behaviour of Spec, and the behaviours over the longer ballot lists.
NextRounds ==
    \/ Next
    \/ AddRoundBallot

SpecRounds == Init /\ [][NextRounds]_vars

\* ------------------------------------------- two runs under the same draws

\* What one state of the random generator makes random.choice return: for
\* every length of the list an index below it.
ChoiceDraws ==
    {f \in [1..Cardinality(Cands) -> 0..(Cardinality(Cands) - 1)] :
       \A n \in DOMAIN f : f[n] < n}

\* What riffle makes of list(set(names)) in two runs that take the same draws
\* U and sigma: each run lists the set in an order of its own (h1, h2).
ShuffledTwice ==
    UNION {{[one |-> riffle(h1, d.U, d.sigma), two |-> riffle(h2, d.U, d.sigma)] :
              h1 \in Orders(Range(names)), h2 \in Orders(Range(names)),
              d \in Draws(Cardinality(Range(names)))} :
           names \in NameLists}

\* add_candidates(names) in both runs, under the same draws.
DetAddCandidates ==
    /\ el.pc = "idle" /\ el2.pc = "idle"
    /\ \E shuffled \in ShuffledTwice :
          /\ el' = AddShuffled(el, shuffled.one)
          /\ el2' = AddShuffled(el2, shuffled.two)

\* add_ballot(ballot) in both runs.
DetAddBallot ==
    /\ el.pc = "idle" /\ el2.pc = "idle"
    /\ Len(el.ballots) < MaxBallots
    /\ \E ballot \in Rankings :
          /\ el' = add_ballot(el, ballot)
          /\ el2' = add_ballot(el2, ballot)

\* single_winner_rcv() begins in both runs.
DetStart ==
    /\ el.pc = "idle" /\ el2.pc = "idle"
    /\ el' = Start(el)
    /\ el2' = Start(el2)

\* Where a run stands in single_winner_rcv: before lines 139-145 of an
\* iteration, before the rest of the iteration, before line 234, or ended
\* (returned or raised).
AtEliminate(self) == self.pc = "loop" /\ LoopTest(self)

AtRedistribute(self) == self.pc = "elim"

AtFinish(self) == self.pc = "loop" /\ ~LoopTest(self)

Ended(self) == self.pc \in {"done", "error"}

\* The two runs are separate executions: each takes its steps whatever the
\* other does.  They are followed side by side, so that the n-th tie-break of
\* one takes the same draw as the n-th tie-break of the other; a run that
\* has ended (one may raise where the other goes on) stays as it is while
\* the other takes its steps.

\* Lines 139-145 in the runs under way, under the same state f of the
\* generator.
DetEliminate ==
    /\ AtEliminate(el) \/ AtEliminate(el2)
    /\ AtEliminate(el) \/ Ended(el)
    /\ AtEliminate(el2) \/ Ended(el2)
    /\ \E f \in ChoiceDraws :
          /\ el' = IF AtEliminate(el)
                   THEN Eliminate(el, f[Len(tied_candidates(el))]) ELSE el
          /\ el2' = IF AtEliminate(el2)
                    THEN Eliminate(el2, f[Len(tied_candidates(el2))]) ELSE el2

\* Lines 146-232 in the runs under way.
DetRedistribute ==
    /\ AtRedistribute(el) \/ AtRedistribute(el2)
    /\ AtRedistribute(el) \/ Ended(el)
    /\ AtRedistribute(el2) \/ Ended(el2)
    /\ el' = IF AtRedistribute(el) THEN Redistribute(el) ELSE el
    /\ el2' = IF AtRedistribute(el2) THEN Redistribute(el2) ELSE el2

\* Line 234 in the runs under way.
DetFinish ==
    /\ AtFinish(el) \/ AtFinish(el2)
    /\ AtFinish(el) \/ Ended(el)
    /\ AtFinish(el2) \/ Ended(el2)
    /\ el' = IF AtFinish(el) THEN Finish(el) ELSE el
    /\ el2' = IF AtFinish(el2) THEN Finish(el2) ELSE el2

NextDet ==
    \/ DetAddCandidates
    \/ DetAddBallot
    \/ DetStart
    \/ DetEliminate
    \/ DetRedistribute
    \/ DetFinish

SpecDet == Init /\ [][NextDet]_vars

\* -------------------------------------------------------------- scenario 1

Scenario1Candidates == <<"A", "B", "C">>

Scenario1Ballots ==
    << <<"A", "B", "C">>, <<"A", "B", "C">>, <<"A", "B", "C">>,
       <<"B", "C", "A">>, <<"B", "C", "A">>,
       <<"C", "A", "B">>, <<"C", "A", "B">> >>

\* How many times x occurs in seq.
Count(seq, x) == Cardinality({i \in DOMAIN seq : seq[i] = x})

\* add_candidates(["A", "B", "C"]), once.
S1AddCandidates ==
    /\ el.pc = "idle"
    /\ el.keys = <<>>
    /\ \E shuffled \in Shuffled[Scenario1Candidates] : el' = AddShuffled(el, shuffled)
    /\ UNCHANGED el2

\* add_ballot for a ballot of the scenario that is still to be cast; the
\* ballots are cast in any order.
S1AddBallot ==
    /\ el.pc = "idle"
    /\ \E ballot \in Range(Scenario1Ballots) :
          /\ Count(el.ballots, ballot) < Count(Scenario1Ballots, ballot)
          /\ el' = add_ballot(el, ballot)
    /\ UNCHANGED el2

\* single_winner_rcv() once the candidates and the seven ballots are loaded.
S1Start ==
    /\ el.pc = "idle"
    /\ el.keys # <<>>
    /\ Len(el.ballots) = Len(Scenario1Ballots)
    /\ el' = Start(el)
    /\ UNCHANGED el2

NextS1 ==
    \/ S1AddCandidates
    \/ S1AddBallot
    \/ S1Start
    \/ RunEliminate
    \/ RunRedistribute
    \/ RunFinish

SpecS1 == Init /\ [][NextS1]_vars

\* ------------------------------------------- operations after a completed run

\* The class keeps no record of a completed run beside self.winner: every
\* method runs on the instance as it runs before the run.  The calls are
\* counted by assigns, as before the run, and candidates and ballots are
\* loaded before ballots are assigned again.

\* add_ballot(ballot) after the run.
AfterAddBallot ==
    /\ el.pc = "done"
    /\ el.assigns <= MaxAssigns
    /\ Len(el.ballots) < MaxBallots
    /\ \E ballot \in Rankings : el' = add_ballot(el, ballot)
    /\ UNCHANGED el2

\* add_candidates(names) after the run.
AfterAddCandidates ==
    /\ el.pc = "done"
    /\ el.assigns <= MaxAssigns
    /\ \E shuffled \in AllShuffled : el' = AddShuffled(el, shuffled)
    /\ UNCHANGED el2

\* assign_ballots() after the run.
AfterAssignBallots ==
    /\ el.pc = "done"
    /\ el.assigns <= MaxAssigns
    /\ el' = assign_ballots(el)
    /\ UNCHANGED el2

\* single_winner_rcv() a second time.
AfterRunStart ==
    /\ el.pc = "done"
    /\ el.assigns <= MaxAssigns
    /\ el' = Start(el)
    /\ UNCHANGED el2

NextAfter ==
    \/ Next
    \/ AfterAddBallot
    \/ AfterAddCandidates
    \/ AfterAssignBallots
    \/ AfterRunStart

SpecAfter == Init /\ [][NextAfter]_vars

\* ------------------------------------ two instances built by Election()

\* def __init__(self, ballots=[], candidates=[]) evaluates its defaults once:
\* self.ballots = ballots makes the ballot list of every instance built
\* without a ballots argument the same list object, while self.candidates,
\* self.eliminated and self.sankey_obj are built anew in every call.  Here
\* el and el2 are two such instances, and only el is operated on; in the
\* other specifications el2 is built with a list of its own.

\* el.add_ballot(ballot): self.ballots.append(ballot) extends the one list
\* that both instances refer to.
SharedAddBallot ==
    /\ el.pc = "idle"
    /\ el.assigns = 0
    /\ Len(el.ballots) < MaxBallots
    /\ \E ballot \in Rankings :
          /\ el' = add_ballot(el, ballot)
          /\ el2' = [el2 EXCEPT !.ballots = el'.ballots]

NextShared ==
    \/ SharedAddBallot
    \/ AddCandidates
    \/ RunStart
    \/ RunEliminate
    \/ RunRedistribute
    \/ RunFinish

SpecShared == Init /\ [][NextShared]_vars

\* ----------------------------------------------------------------- __repr__

\* __repr__ (lines 286-296): the four numbers of the status string.  It
\* assigns nothing.
repr(self) ==
    LET num_candidates == self.number_of_candidates
        num_ballots == Len(self.ballots)
        active_candidates == num_candidates - Cardinality(self.eliminated)
        active_ballots == num_ballots - Held(self)
    IN [candidates |-> num_candidates,
        ballots |-> num_ballots,
        remaining |-> active_candidates,
        exhausted |-> num_ballots - active_ballots]

\* ------------------------------------------------------------ the claims

\* A round boundary of single_winner_rcv: right after the initial assignment
\* and after every completed iteration of the loop (the loop's test, or the
\* run's end).
AtBoundary(self) == self.pc \in {"loop", "done"}

\* The ballots whose ranking holds no candidate that is not eliminated.
Exhausted(self) ==
    {i \in 1..Len(self.ballots) :
       \A j \in 1..Len(self.ballots[i]) : self.ballots[i][j] \in self.eliminated}

\* Every ranking is non-empty and names candidates of the election only.
WellFormed(self) ==
    \A i \in 1..Len(self.ballots) :
       /\ Len(self.ballots[i]) > 0
       /\ Range(self.ballots[i]) \subseteq Range(self.keys) \cup self.eliminated

\* The candidates whose list holds ballot i.
Holders(self, i) == {c \in Range(self.keys) : i \in Range(self.candidates[c])}

\* C1 as stated: at every round boundary, after any sequence of public
\* operations that loads candidates and ballots and then runs the election,
\* the ballots held by the active candidates plus the exhausted ballots are
\* as many as the ballots of the election.
C1_ConservationAnySequence ==
    AtBoundary(el) =>
        Held(el) + Cardinality(Exhausted(el)) = Len(el.ballots)

\* C1 amended: the same at every round boundary of a run before which the
\* user did not call assign_ballots (the run's own call is the only one).
C1_Conservation ==
    (AtBoundary(el) /\ el.assigns = 1) =>
        Held(el) + Cardinality(Exhausted(el)) = Len(el.ballots)

\* A round boundary after a round that exhausted a ballot, all ballots
\* well-formed and assigned once.
C1_Witness ==
    /\ el.pc = "loop"
    /\ el.assigns = 1
    /\ WellFormed(el)
    /\ Len(el.ballots) = MaxBallots
    /\ Exhausted(el) # {}
    /\ Held(el) > 0

\* C2: after a round that eliminated a candidate holding the ballots B,
\* every ballot of B is in the list of exactly one remaining candidate,
\* the first candidate of its ranking that is not eliminated, or, when its
\* ranking has no such candidate, in no list at all.
C2_TransferCorrectness ==
    [][(el.pc = "elim" /\ el'.pc = "loop") =>
         \A i \in Range(el.candidates[el.last_place]) :
            LET ranking == el.ballots[i]
                open == {j \in 1..Len(ranking) : ranking[j] \notin el'.eliminated}
            IN IF open = {}
               THEN Holders(el', i) = {}
               ELSE \E j \in open :
                       /\ \A k \in open : j <= k
                       /\ Holders(el', i) = {ranking[j]}]_vars

\* A round boundary after a round that moved a ballot to its first candidate
\* that is not eliminated while a later candidate of its ranking was in the
\* election too.
C2_Witness ==
    /\ el.pc = "loop"
    /\ el.sankey_layer = 2
    /\ Len(el.keys) = 2
    /\ WellFormed(el)
    /\ \E i \in 1..Len(el.ballots) :
          /\ el.ballots[i][1] = el.last_place
          /\ Len(el.ballots[i]) = 3
          /\ Holders(el, i) = {el.ballots[i][2]}
          /\ el.ballots[i][3] \in Range(el.keys)

\* The run is under way.
Running(self) == self.pc \in {"loop", "elim"}

\* The steps the run has left at most: two per iteration of the loop that
\* can still begin, one for the rest of the iteration under way, one to end.
Variant(self) ==
    2 * (self.number_of_candidates - 1 - self.rounds)
      + (IF self.pc = "elim" THEN 2 ELSE IF self.pc = "loop" THEN 1 ELSE 0)

\* C3: a run with at least one candidate and well-formed ballots ends, after
\* at most number_of_candidates - 1 iterations of the loop: every step of
\* the run lowers a measure that is never negative, no step begins an
\* iteration beyond number_of_candidates - 1, and none raises.
C3_Termination ==
    [][(Running(el) /\ el.number_of_candidates >= 1) =>
          /\ Variant(el) > 0
          /\ Variant(el') >= 0
          /\ Variant(el') < Variant(el)
          /\ el'.rounds <= el.number_of_candidates - 1
          /\ WellFormed(el) => el'.pc # "error"]_vars

\* A run that ended after the most iterations three candidates allow.
C3_Witness ==
    /\ el.pc = "done"
    /\ WellFormed(el)
    /\ el.number_of_candidates = Cardinality(Cands)
    /\ el.rounds = el.number_of_candidates - 1

\* C4: when the run has ended, one candidate is left in self.candidates, it
\* is the winner, it is not eliminated, and every other candidate of the
\* election is.
C4_Winner ==
    el.pc = "done" =>
        /\ el.number_of_candidates >= 1
        /\ Len(el.keys) = 1
        /\ el.winner = el.keys[1]
        /\ el.winner \notin el.eliminated
        /\ el.eliminated = el.original \ {el.winner}

\* A run over three candidates that ended with a winner holding ballots.
C4_Witness ==
    /\ el.pc = "done"
    /\ Cardinality(el.original) = Cardinality(Cands)
    /\ el.winner \in Cands
    /\ Tally(el, el.winner) > 0

\* C5: every iteration of the loop adds exactly one candidate to the
\* eliminated set, a candidate that was not in it, and the rest of the
\* iteration leaves the set alone.
C5_MonotonicElimination ==
    [][/\ (el.pc = "loop" /\ el'.pc = "elim") =>
             /\ el'.last_place \notin el.eliminated
             /\ el'.eliminated = el.eliminated \cup {el'.last_place}
             /\ Cardinality(el'.eliminated) = Cardinality(el.eliminated) + 1
       /\ el.pc = "elim" => el'.eliminated = el.eliminated]_vars

\* The second iteration has chosen its candidate.
C5_Witness ==
    /\ el.pc = "elim"
    /\ el.rounds = 2
    /\ Cardinality(el.eliminated) = 2

\* C6: from the moment ballots are assigned, the eliminated candidates and
\* the keys of self.candidates are together the candidates of the election,
\* in the middle of a round too; at a round boundary no candidate is both.
C6_I2 ==
    /\ el.assigns >= 1 => el.eliminated \cup Range(el.keys) = el.original
    /\ AtBoundary(el) => el.eliminated \cap Range(el.keys) = {}

\* The middle of a round: the candidate is eliminated and still a key.
C6_Witness ==
    /\ el.pc = "elim"
    /\ el.last_place \in el.eliminated \cap Range(el.keys)
    /\ Tally(el, el.last_place) > 0

\* C7: an eliminated candidate is a key of self.candidates only until the
\* round that eliminated it ends, and its list gets no ballot in that round
\* or later.
C7_I3 ==
    [][\A c \in el'.eliminated :
          c \in Range(el'.keys) =>
             /\ el'.pc \in {"elim", "error"}
             /\ c = el'.last_place
             /\ c \in Range(el.keys)
             /\ el'.candidates[c] = el.candidates[c]]_vars

\* A round moved a ballot while an earlier round's candidate stays out.
C7_Witness ==
    /\ el.pc = "loop"
    /\ el.rounds = 2
    /\ el.sankey_layer = 2
    /\ el.eliminated \cap Range(el.keys) = {}
    /\ \E i \in 1..Len(el.ballots) : \E c \in Holders(el, i) : c # el.ballots[i][1]

\* The candidates that hold the fewest ballots.
MinTally(self) ==
    {c \in Range(self.keys) :
       \A d \in Range(self.keys) : Tally(self, c) <= Tally(self, d)}

\* C8: the candidates an iteration can eliminate are exactly the candidates
\* that hold the fewest ballots, and the one it eliminated is one of them.
C8_TieBreak ==
    /\ (el.pc = "loop" /\ LoopTest(el)) =>
          {resolve_tie_random(el, r) : r \in TieDraws(el)} = MinTally(el)
    /\ el.pc = "elim" => el.last_place \in MinTally(el)

\* Three candidates tie for the last place.
C8_Witness ==
    /\ el.pc = "loop"
    /\ LoopTest(el)
    /\ Cardinality(MinTally(el)) = Cardinality(Cands)


\* C9: two runs with the same candidates, the same ballots and the same
\* random draws (for the shuffle and for the tie-breaks) that both complete
\* have the same winner, the same node list and the same link list.
C9_Determinism ==
    (el.pc = "done" /\ el2.pc = "done") =>
       /\ el.winner = el2.winner
       /\ el.nodes = el2.nodes
       /\ el.links = el2.links

\* The first-round tallies of scenario 1.
S1Starts(self) ==
    (self.pc = "loop" /\ self.rounds = 0) =>
       /\ Tally(self, "A") = 3
       /\ Tally(self, "B") = 2
       /\ Tally(self, "C") = 2

\* The first elimination of scenario 1.
S1FirstElimination(self) ==
    (self.pc = "elim" /\ self.rounds = 1) => self.last_place \in {"B", "C"}

\* The end of scenario 1, for the winners the statement allows.
S1Ends(self, winners) ==
    /\ self.pc # "error"
    /\ self.pc = "done" =>
          /\ self.winner \in winners
          /\ self.keys = <<self.winner>>
          /\ Tally(self, self.winner) >= 4

\* C10 as the specification states it: in scenario 1 A starts with 3 ballots,
\* B and C with 2; the first elimination is B or C; the winner is A or B; at
\* the end one candidate remains and holds at least 4 ballots.
C10_Scenario1WinnerAorB ==
    /\ S1Starts(el)
    /\ S1FirstElimination(el)
    /\ S1Ends(el, {"A", "B"})

\* C10, amended: in scenario 1 A starts with 3 ballots, B and C with 2; the
\* first elimination is B or C; the winner is A or C; at the end one candidate
\* remains and holds at least 4 ballots.
C10_Scenario1 ==
    /\ S1Starts(el)
    /\ S1FirstElimination(el)
    /\ S1Ends(el, {"A", "C"})

\* Scenario 1 ran to its end after B was eliminated first, and C won.
C10_Witness ==
    /\ el.pc = "done"
    /\ Count(el.ballots, Scenario1Ballots[1]) = 3
    /\ Len(el.ballots) = Len(Scenario1Ballots)
    /\ el.eliminated = {"B", "A"}
    /\ el.winner = "C"
    /\ Tally(el, "C") = Len(Scenario1Ballots)


\* C11: a run over exactly one candidate c and ballots that rank only c
\* begins no elimination round, eliminates nobody, raises nothing and ends
\* with c as the winner.
C11_SingleCandidate ==
    \A c \in Cands :
       (/\ el.pc # "idle"
        /\ el.original = {c}
        /\ \A i \in 1..Len(el.ballots) : el.ballots[i] = <<c>>) =>
          /\ el.pc \in {"loop", "done"}
          /\ el.keys = <<c>>
          /\ ~LoopTest(el)
          /\ el.rounds = 0
          /\ el.eliminated = {}
          /\ el.pc = "done" => el.winner = c

\* A run over the single candidate A and MaxBallots ballots for A has ended.
C11_Witness ==
    /\ el.pc = "done"
    /\ el.original = {"A"}
    /\ Len(el.ballots) = MaxBallots
    /\ \A i \in 1..Len(el.ballots) : el.ballots[i] = <<"A">>
    /\ el.winner = "A"
    /\ el.rounds = 0

\* The exceptions the specification names for a run over no candidate.
NoCandidatesErrors == {"NoCandidatesError", "DegenerateElectionError"}

\* C12: when no candidate is registered, single_winner_rcv ends in a
\* NoCandidatesError / DegenerateElectionError raised by that call and sets
\* no winner.
C12_ZeroCandidates ==
    (el.pc # "idle" /\ el.assigns >= 1 /\ el.original = {}) =>
       /\ el.winner = None
       /\ el.pc \in {"loop", "error"}
       /\ el.pc = "error" => el.raised \in NoCandidatesErrors

\* The part of C12 that the code keeps: the call over no candidate ends in
\* an exception (the step left at the loop's test raises), no state of it is
\* a completed run, and the winner stays None.
C12_RaisesAndNoWinner ==
    (el.pc # "idle" /\ el.assigns >= 1 /\ el.original = {}) =>
       /\ el.winner = None
       /\ el.pc \in {"loop", "error"}
       /\ el.pc = "loop" =>
             /\ ~LoopTest(el)
             /\ Finish(el).pc = "error"
             /\ Finish(el).winner = None

\* The run over no candidate and no ballot raised at line 234.
C12_Witness ==
    /\ el.pc = "error"
    /\ el.raised = "IndexError"
    /\ el.assigns >= 1
    /\ el.original = {}
    /\ el.ballots = <<>>
    /\ el.winner = None


\* The round that el to el' completes eliminated a candidate with no ballot.
ZeroBallotRound == el.pc = "elim" /\ el'.pc = "loop" /\ Tally(el, el.last_place) = 0

\* The round that el to el' completes eliminated a candidate with a ballot.
TransferRound == el.pc = "elim" /\ el'.pc = "loop" /\ Tally(el, el.last_place) > 0

\* Scenario 4 in the state self: of three candidates c holds every ballot
\* and the other two hold none.  The run eliminates only the other two, in
\* either order, records no node beyond c's first one and no link, raises
\* nothing and ends with c as the winner.
Scenario4(self, c) ==
    (/\ self.pc # "idle"
     /\ Cardinality(self.original) = 3
     /\ c \in self.original
     /\ Len(self.ballots) >= 1
     /\ \A i \in 1..Len(self.ballots) :
           Len(self.ballots[i]) >= 1 /\ self.ballots[i][1] = c) =>
        /\ self.pc # "error"
        /\ self.eliminated \subseteq self.original \ {c}
        /\ Len(self.nodes) = 1 /\ self.nodes[1].name = c
        /\ self.links = <<>>
        /\ (self.pc = "loop" /\ self.rounds = 0) =>
              {resolve_tie_random(self, r) : r \in TieDraws(self)} = self.original \ {c}
        /\ self.pc = "done" => self.winner = c /\ self.rounds = 2

\* C13: a round that eliminates a candidate with no ballot removes it from
\* self.candidates, changes no other candidate's list and leaves the nodes
\* and links unchanged; a round that eliminates a candidate with a ballot
\* appends the nodes of a new layer; and in scenario 4 the two candidates
\* without ballots go first, in either order, without transfers, and the
\* third wins.
C13_ZeroBallotElimination ==
    [][/\ ZeroBallotRound =>
             /\ Range(el'.keys) = Range(el.keys) \ {el.last_place}
             /\ \A c \in Range(el'.keys) : el'.candidates[c] = el.candidates[c]
             /\ el'.nodes = el.nodes
             /\ el'.links = el.links
       /\ TransferRound =>
             /\ Len(el'.nodes) > Len(el.nodes)
             /\ SubSeq(el'.nodes, 1, Len(el.nodes)) = el.nodes
             /\ \A i \in (Len(el.nodes) + 1)..Len(el'.nodes) :
                   el'.nodes[i].layer = el.sankey_layer + 1
       /\ \A c \in Cands : Scenario4(el', c)]_vars

\* Scenario 4 ran to its end: A holds MaxBallots ballots, B and C were
\* eliminated without a ballot.
C13_Witness ==
    /\ el.pc = "done"
    /\ el.original = Cands
    /\ Len(el.ballots) = MaxBallots
    /\ \A i \in 1..Len(el.ballots) : el.ballots[i][1] = "A"
    /\ el.eliminated = {"B", "C"}
    /\ el.winner = "A"
    /\ el.links = <<>>


\* The state of the election that C14 names.
ElectionState(self) ==
    <<self.ballots, self.keys, self.candidates, self.eliminated,
      self.number_of_candidates, self.winner, self.nodes, self.links>>

\* C14: once the winner is set no public operation (add_ballot,
\* add_candidates, assign_ballots, a second single_winner_rcv) changes the
\* ballot list, the candidates and their lists, the eliminated set, the
\* number of candidates, the winner or the flow-graph.
C14_TerminalImmutable ==
    [][el.winner # None => ElectionState(el') = ElectionState(el)]_vars


\* C15: of two instances built without arguments, the operations on one
\* (add_ballot, add_candidates, the run) leave the ballot list and all other
\* state of the other as it was constructed.
C15_InstanceIsolation == el2 = ElectionInit


\* C16: after ballots are assigned, the exhausted-ballot count of the status
\* string is the number of ballots in no candidate's list (the ballots minus
\* the lengths of the candidates' lists) and its remaining-candidates value
\* is number_of_candidates minus the size of the eliminated set.
C16_SummaryReport ==
    el.assigns >= 1 =>
       /\ repr(el).exhausted = Len(el.ballots) - Held(el)
       /\ repr(el).remaining = el.number_of_candidates - Cardinality(el.eliminated)

\* What the code's status string does report: the ballots held in the
\* candidates' lists, under the name of exhausted ballots.
C16_ReportsHeld ==
    el.assigns >= 1 =>
       /\ repr(el).exhausted = Held(el)
       /\ repr(el).remaining = el.number_of_candidates - Cardinality(el.eliminated)

\* The nodes and links of self agree: no two nodes have the same name and
\* layer, and every link leads from a node of one layer to a node of the next.
GraphAgrees(self) ==
    /\ \A i, j \in 1..Len(self.nodes) :
          (self.nodes[i].name = self.nodes[j].name
             /\ self.nodes[i].layer = self.nodes[j].layer) => i = j
    /\ \A k \in 1..Len(self.links) :
          /\ self.links[k].source \in 0..(Len(self.nodes) - 1)
          /\ self.links[k].target \in 0..(Len(self.nodes) - 1)
          /\ self.nodes[self.links[k].target + 1].layer =
                self.nodes[self.links[k].source + 1].layer + 1

\* The links a round appended lead from the node of a surviving candidate or
\* of the eliminated one at layer - 1 to the node of a surviving candidate at
\* layer, a surviving candidate's own link to its own node.
NewLinksAgree(before, after) ==
    \A k \in (Len(before.links) + 1)..Len(after.links) :
       LET from == after.nodes[after.links[k].source + 1]
           to == after.nodes[after.links[k].target + 1]
       IN /\ from.layer = after.sankey_layer - 1
          /\ to.layer = after.sankey_layer
          /\ to.name \in Range(after.keys)
          /\ from.name \in Range(after.keys) \cup {before.last_place}
          /\ from.name # before.last_place => from.name = to.name

\* C17: in every state the pair (name, layer) is unique among the nodes,
\* every node lookup made for a link succeeded, and every link's source is
\* the index of the node of its source candidate at layer L-1 and its target
\* the index of the node of its target candidate at layer L, also when
\* candidates start without ballots.
C17_IndexAgreement ==
    [][/\ GraphAgrees(el')
       /\ el.pc = "elim" => el'.raised # "ValueError"
       /\ (el.pc = "elim" /\ el'.pc = "loop") => NewLinksAgree(el, el')]_vars

\* A run of two rounds that each recorded a layer has ended: the links of the
\* second round, a candidate's own and a transfer, lead from nodes of layer 2,
\* which carry no value, to nodes of layer 3.
C17_Witness ==
    /\ el.pc = "done"
    /\ el.sankey_layer = 3
    /\ Len(el.nodes) = 6
    /\ \E j, k \in 1..Len(el.links) :
          /\ el.nodes[el.links[j].target + 1].layer = 3
          /\ el.nodes[el.links[k].target + 1].layer = 3
          /\ el.nodes[el.links[j].source + 1].value = NoValue
          /\ el.nodes[el.links[j].source + 1].name = el.nodes[el.links[j].target + 1].name
          /\ el.nodes[el.links[k].source + 1].name = el.last_place


\* The positions in after.links of the links that the round from before to
\* after appended and that lead from a node of candidate a to one of b.
NewLinks(before, after, a, b) ==
    {k \in (Len(before.links) + 1)..Len(after.links) :
       /\ after.nodes[after.links[k].source + 1].name = a
       /\ after.nodes[after.links[k].target + 1].name = b}

\* The sum of the values of the links of self at the positions in S.
RECURSIVE LinkSum(_, _)
LinkSum(self, S) ==
    IF S = {} THEN 0
    ELSE LET k == CHOOSE k \in S : TRUE
         IN self.links[k].value + LinkSum(self, S \ {k})

\* How many ballots of the eliminated candidate's list name no candidate
\* that is still in the election.
ExhaustedInRound(self) ==
    LET held == self.candidates[self.last_place]
    IN Cardinality({j \in 1..Len(held) :
                      FirstAvailable(self.ballots[held[j]], self.eliminated, 1) = None})

\* C18: a round that transfers ballots records one self-link per surviving
\* candidate, valued at its tally before the round, and one link from the
\* eliminated candidate to each candidate that received ballots, valued at
\* the number it received, and no other link; so a survivor's incoming links
\* sum to its tally after the round and the eliminated candidate's outgoing
\* links to its tally minus the ballots exhausted in the round.
C18_LinkValues ==
    [][TransferRound =>
         LET last == el.last_place
             live == Range(el'.keys)
         IN /\ live = Range(el.keys) \ {last}
            /\ \A c \in live :
                  LET received == Tally(el', c) - Tally(el, c)
                  IN /\ Cardinality(NewLinks(el, el', c, c)) = 1
                     /\ LinkSum(el', NewLinks(el, el', c, c)) = Tally(el, c)
                     /\ Cardinality(NewLinks(el, el', last, c)) =
                           IF received > 0 THEN 1 ELSE 0
                     /\ LinkSum(el', NewLinks(el, el', last, c)) = received
                     /\ LinkSum(el', NewLinks(el, el', c, c) \cup NewLinks(el, el', last, c))
                           = Tally(el', c)
            /\ Len(el'.links) - Len(el.links) =
                  Cardinality(live) + Cardinality({c \in live : Tally(el', c) > Tally(el, c)})
            /\ LinkSum(el', UNION {NewLinks(el, el', last, c) : c \in live})
                  = Tally(el, last) - ExhaustedInRound(el)]_vars

\* A round has just transferred the two ballots of the eliminated candidate
\* to two candidates that held two ballots each: two self-links of value 2
\* and two transfer links of value 1.
C18_Witness ==
    /\ el.pc = "loop"
    /\ el.sankey_layer = 2
    /\ Len(el.keys) = 2
    /\ Len(el.links) = 4
    /\ \A c \in Range(el.keys) :
          /\ Tally(el, c) = 3
          /\ \E j, k \in 1..Len(el.links) :
                /\ el.nodes[el.links[j].source + 1].name = c
                /\ el.nodes[el.links[j].target + 1].name = c
                /\ el.links[j].value = 2
                /\ el.nodes[el.links[k].source + 1].name = el.last_place
                /\ el.nodes[el.links[k].target + 1].name = c
                /\ el.links[k].value = 1


\* C19: riffle returns normally for every sequence of at most one item, so
\* add_candidates (the only call made before ballots are assigned) raises
\* nothing, for an empty list and for a single name as for longer lists.
C19_RiffleShort ==
    el.assigns = 0 => (el.pc # "error" /\ el.raised = None)

\* The part of C19 that the code keeps: a sequence of one item is returned
\* as it is.
C19_RiffleSingle ==
    \A item \in [1..1 -> Cands] : \A d \in Draws(Len(item)) :
       /\ ShuffleCount(Len(item), d.U) = 0
       /\ riffle(item, d.U, d.sigma) = [raised |-> None, item |-> item]
       /\ (el.pc = "idle" /\ el.assigns = 0) =>
             AddShuffled(el, riffle(item, d.U, d.sigma)).pc = "idle"

\* C20: in a round the tally of a candidate that stays does not decrease;
\* once a round has recorded a layer (its eliminated candidate held a
\* ballot) every candidate left holds a ballot; a candidate that holds a
\* ballot is eliminated only when every candidate holds one; so a round that
\* eliminates a candidate without ballots comes before every such round.
C20_TalliesNeverDecrease ==
    [][/\ (el.pc = "elim" /\ el'.pc = "loop") =>
             \A c \in Range(el'.keys) : Tally(el', c) >= Tally(el, c)
       /\ (el'.pc \in {"loop", "elim", "done"} /\ el'.sankey_layer >= 2) =>
             \A c \in Range(el'.keys) : Tally(el', c) > 0
       /\ (el'.pc = "elim" /\ Tally(el', el'.last_place) > 0) =>
             \A c \in Range(el'.keys) : Tally(el', c) > 0
       /\ ZeroBallotRound => el.sankey_layer = 1 /\ el.links = <<>>]_vars

\* A round that follows a round of transfers is under way: every candidate
\* left holds a ballot, one of them more than it started with, and the
\* candidate chosen for elimination holds a ballot.
C20_Witness ==
    /\ el.pc = "elim"
    /\ el.rounds = 2
    /\ el.sankey_layer = 2
    /\ el.links # <<>>
    /\ Len(el.keys) = 2
    /\ Tally(el, el.last_place) > 0
    /\ \E c \in Range(el.keys) :
          Tally(el, c) > Cardinality({i \in 1..Len(el.ballots) :
                                        Len(el.ballots[i]) >= 1 /\ el.ballots[i][1] = c})

=============================================================================
